---------------------------- MODULE Spec2Model ----------------------------
(***************************************************************************)
(* Release-channel resolution of the Dockter release scripts:              *)
(*   scripts/release/update_homebrew_tap_casks.py   (the Homebrew run)     *)
(*   scripts/release/update_sparkle_appcasts.py     (the Sparkle run)      *)
(*   scripts/release_notes_from_changelog.py        (changelog extractor)  *)
(*                                                                         *)
(* A Python str is a sequence of one-character strings, so that splitting, *)
(* trimming, case folding and integer parsing are computed, not assumed.   *)
(***************************************************************************)
EXTENDS Integers, Sequences, FiniteSets, TLC

VARIABLES
    tagged,     \* tag harness: a tag text and what parse_tag made of it
    cmp,        \* comparator harness: two parsed tags and their version keys
    notes,      \* extractor harness: a changelog text, a tag, the outcome
    signer,     \* signer harness: the run-scoped caches and the request log
    script,     \* which script's main() is running: "homebrew" | "sparkle"
    input,      \* what the run is given: host payload, changelog, key, flags
    pc,         \* position of main()
    run,        \* 1 for the first run, 2 for the repeated run
    clock,      \* wall clock read by datetime.now()
    local,      \* main()'s local variables
    files,      \* output files on disk: name -> content, or None
    log         \* what the run did: network activity, writes, reports, error

vars == <<tagged, cmp, notes, signer, script, input, pc, run, clock, local, files, log>>

\* Python's None where a str is expected: no str has a character "None".
None == <<"None">>

\* The value of a variable that a specification does not use.
Idle == "idle"

(***************************************************************************)
(* Characters and Python's str methods.                                    *)
(***************************************************************************)
Digits == <<"0", "1", "2", "3", "4", "5", "6", "7", "8", "9">>
UpperCase == <<"A", "B", "C", "D", "E", "F", "G", "H", "I", "J", "K", "L", "M",
               "N", "O", "P", "Q", "R", "S", "T", "U", "V", "W", "X", "Y", "Z">>
LowerCase == <<"a", "b", "c", "d", "e", "f", "g", "h", "i", "j", "k", "l", "m",
               "n", "o", "p", "q", "r", "s", "t", "u", "v", "w", "x", "y", "z">>

Range(s) == {s[i] : i \in 1..Len(s)}

IndexOf(s, c) == CHOOSE i \in 1..Len(s) : s[i] = c

IsDigitChar(c) == c \in Range(Digits)

IsUpperChar(c) == c \in Range(UpperCase)

IsLowerChar(c) == c \in Range(LowerCase)

\* The code point of a character (ASCII).
Ord(c) ==
    IF IsDigitChar(c) THEN 47 + IndexOf(Digits, c)
    ELSE IF IsUpperChar(c) THEN 64 + IndexOf(UpperCase, c)
    ELSE IF IsLowerChar(c) THEN 96 + IndexOf(LowerCase, c)
    ELSE CASE c = "\t" -> 9
           [] c = "\n" -> 10
           [] c = " " -> 32
           [] c = "#" -> 35
           [] c = "-" -> 45
           [] c = "." -> 46
           [] c = "[" -> 91
           [] c = "]" -> 93

\* str.isdigit(): non-empty and every character a digit.
IsDigitStr(s) == Len(s) > 0 /\ \A i \in 1..Len(s) : IsDigitChar(s[i])

LowerChar(c) == IF IsUpperChar(c) THEN LowerCase[IndexOf(UpperCase, c)] ELSE c

\* str.lower()
LowerStr(s) == [i \in 1..Len(s) |-> LowerChar(s[i])]

\* int(s) of a digit string (leading zeros allowed).
RECURSIVE IntOf(_)
IntOf(s) ==
    IF Len(s) = 0 THEN 0
    ELSE 10 * IntOf(SubSeq(s, 1, Len(s) - 1)) + (Ord(s[Len(s)]) - 48)

\* str(n) of a non-negative integer.
RECURSIVE StrOf(_)
StrOf(n) ==
    IF n < 10 THEN <<Digits[n + 1]>>
    ELSE StrOf(n \div 10) \o <<Digits[(n % 10) + 1]>>

\* Python's < on str: lexicographic by code point, a proper prefix first.
RECURSIVE StrLess(_, _)
StrLess(s, t) ==
    IF Len(t) = 0 THEN FALSE
    ELSE IF Len(s) = 0 THEN TRUE
    ELSE IF s[1] # t[1] THEN Ord(s[1]) < Ord(t[1])
    ELSE StrLess(Tail(s), Tail(t))

IsSpaceChar(c) == c \in {" ", "\t", "\n"}

\* str.strip(): drop leading and trailing whitespace characters.
RECURSIVE LStrip(_)
LStrip(s) ==
    IF Len(s) > 0 /\ IsSpaceChar(s[1]) THEN LStrip(Tail(s)) ELSE s

RECURSIVE RStrip(_)
RStrip(s) ==
    IF Len(s) > 0 /\ IsSpaceChar(s[Len(s)])
    THEN RStrip(SubSeq(s, 1, Len(s) - 1)) ELSE s

Strip(s) == RStrip(LStrip(s))

StartsWith(s, p) == Len(s) >= Len(p) /\ SubSeq(s, 1, Len(p)) = p

\* sep.join(parts)
RECURSIVE Join(_, _)
Join(parts, sep) ==
    IF Len(parts) = 0 THEN <<>>
    ELSE IF Len(parts) = 1 THEN parts[1]
    ELSE parts[1] \o sep \o Join(Tail(parts), sep)

\* Split s at every character of seps, keeping empty pieces (re.split with a
\* one-character class).
RECURSIVE SplitAcc(_, _, _)
SplitAcc(s, seps, cur) ==
    IF Len(s) = 0 THEN <<cur>>
    ELSE IF s[1] \in seps THEN <<cur>> \o SplitAcc(Tail(s), seps, <<>>)
    ELSE SplitAcc(Tail(s), seps, Append(cur, s[1]))

SplitOn(s, seps) == SplitAcc(s, seps, <<>>)

(***************************************************************************)
(* Tags: parse_tag, prerelease_key, version_key.                           *)
(***************************************************************************)
ParsedTag(major, minor, patch, prerelease) ==
    [major |-> major, minor |-> minor, patch |-> patch, prerelease |-> prerelease]

\* Python's None where a ParsedTag is expected.
NoTag == ParsedTag(-1, -1, -1, None)

\* No match of a pattern.
NoMatch == [g1 |-> <<>>, g2 |-> <<>>, g3 |-> <<>>, rest |-> None]

\* The longest prefix of s made of digits (\d+ is greedy).
RECURSIVE DigitPrefix(_)
DigitPrefix(s) ==
    IF Len(s) > 0 /\ IsDigitChar(s[1]) THEN <<s[1]>> \o DigitPrefix(Tail(s))
    ELSE <<>>

Drop(s, n) == SubSeq(s, n + 1, Len(s))

\* "$" matches at the end of the string and just before a final newline.
AtEnd(s) == s = <<>> \/ s = <<"\n">>

IsIdentChar(c) ==
    IsDigitChar(c) \/ IsUpperChar(c) \/ IsLowerChar(c) \/ c \in {".", "-"}

\* The longest prefix of s made of [0-9A-Za-z.-].
RECURSIVE IdentPrefix(_)
IdentPrefix(s) ==
    IF Len(s) > 0 /\ IsIdentChar(s[1]) THEN <<s[1]>> \o IdentPrefix(Tail(s))
    ELSE <<>>

\* The common head of both patterns, ^v(\d+)\.(\d+)\.(\d+): the three digit
\* groups and the rest of the string, or None.
MatchHead(tag) ==
    IF ~(Len(tag) > 0 /\ tag[1] = "v") THEN NoMatch
    ELSE LET g1 == DigitPrefix(Tail(tag))
             r1 == Drop(Tail(tag), Len(g1))
         IN IF ~(Len(g1) > 0 /\ Len(r1) > 0 /\ r1[1] = ".") THEN NoMatch
            ELSE LET g2 == DigitPrefix(Tail(r1))
                     r2 == Drop(Tail(r1), Len(g2))
                 IN IF ~(Len(g2) > 0 /\ Len(r2) > 0 /\ r2[1] = ".") THEN NoMatch
                    ELSE LET g3 == DigitPrefix(Tail(r2))
                             r3 == Drop(Tail(r2), Len(g3))
                         IN IF Len(g3) = 0 THEN NoMatch
                            ELSE [g1 |-> g1, g2 |-> g2, g3 |-> g3, rest |-> r3]

parse_tag(tag) ==
    LET m == MatchHead(tag)
    IN IF m = NoMatch THEN NoTag
       ELSE IF AtEnd(m.rest)
            THEN ParsedTag(IntOf(m.g1), IntOf(m.g2), IntOf(m.g3), None)
       ELSE IF m.rest[1] # "-" THEN NoTag
       ELSE LET id == IdentPrefix(Tail(m.rest))
            IN IF Len(id) > 0 /\ AtEnd(Drop(Tail(m.rest), Len(id)))
               THEN ParsedTag(IntOf(m.g1), IntOf(m.g2), IntOf(m.g3), id)
               ELSE NoTag

\* A token that keeps a numeric segment as text.
prerelease_key_token_text(part) == <<1, LowerStr(part)>>

prerelease_key_token(part) ==
    IF IsDigitStr(part) THEN <<0, IntOf(part)>> ELSE <<1, LowerStr(part)>>

prerelease_key(prerelease) ==
    LET parts == SplitOn(prerelease, {".", "-"})
    IN [i \in 1..Len(parts) |-> prerelease_key_token(parts[i])]

\* A key that leaves the patch number out.
version_key_no_patch(parsed) ==
    LET is_stable == IF parsed.prerelease = None THEN 1 ELSE 0
        suffix == IF parsed.prerelease = None THEN <<>>
                  ELSE prerelease_key(parsed.prerelease)
    IN <<parsed.major, parsed.minor, 0, is_stable, suffix>>

version_key(parsed) ==
    LET is_stable == IF parsed.prerelease = None THEN 1 ELSE 0
        suffix == IF parsed.prerelease = None THEN <<>>
                  ELSE prerelease_key(parsed.prerelease)
    IN <<parsed.major, parsed.minor, parsed.patch, is_stable, suffix>>

\* Python's < on the (kind, value) tokens: kind first, then the value, an int
\* for kind 0 and a str for kind 1.
TokenLess(t, u) ==
    IF t[1] # u[1] THEN t[1] < u[1]
    ELSE IF t[1] = 0 THEN t[2] < u[2]
    ELSE StrLess(t[2], u[2])

\* Python's < on tuples of tokens.
RECURSIVE SuffixLess(_, _)
SuffixLess(s, t) ==
    IF Len(t) = 0 THEN FALSE
    ELSE IF Len(s) = 0 THEN TRUE
    ELSE IF s[1] # t[1] THEN TokenLess(s[1], t[1])
    ELSE SuffixLess(Tail(s), Tail(t))

\* Python's < on the tuples version_key returns.
KeyLess(k, l) ==
    IF k[1] # l[1] THEN k[1] < l[1]
    ELSE IF k[2] # l[2] THEN k[2] < l[2]
    ELSE IF k[3] # l[3] THEN k[3] < l[3]
    ELSE IF k[4] # l[4] THEN k[4] < l[4]
    ELSE SuffixLess(k[5], l[5])

KeyLeq(k, l) == k = l \/ KeyLess(k, l)

(***************************************************************************)
(* Changelog extractor: extract_notes.                                     *)
(***************************************************************************)
\* str.splitlines(): the pieces between line breaks, without a last empty one.
SplitLines(text) ==
    LET pieces == SplitOn(text, {"\n"})
    IN IF pieces[Len(pieces)] = <<>> THEN SubSeq(pieces, 1, Len(pieces) - 1)
       ELSE pieces

HeadingMark == <<"#", "#", " ", "[">>

Placeholder ==
    <<"-", " ", "M", "a", "i", "n", "t", "e", "n", "a", "n", "c", "e", " ",
      "r", "e", "l", "e", "a", "s", "e", ".">>

\* The least index in lo..hi of a line satisfying Test, or 0.
FirstIndex(lines, lo, hi, Test(_)) ==
    LET hits == {i \in lo..hi : Test(lines[i])}
    IN IF hits = {} THEN 0 ELSE CHOOSE i \in hits : \A j \in hits : i <= j

Raised(what) == [ok |-> FALSE, error |-> what, text |-> <<>>]

Returned(text) == [ok |-> TRUE, error |-> "", text |-> text]

\* An extractor whose section ends at the first later line that contains a
\* heading after trimming.
extract_notes_trimmed_end(changelog, tag) ==
    IF changelog = None THEN Raised("Missing changelog")
    ELSE
      LET target_heading == HeadingMark \o tag \o <<"]">>
          lines == SplitLines(changelog)
          IsTarget(line) == Strip(line) = target_heading
          IsHeading(line) == StartsWith(Strip(line), HeadingMark)
          found == FirstIndex(lines, 1, Len(lines), IsTarget)
      IN IF found = 0 THEN Raised("No changelog heading found")
         ELSE
           LET start == found + 1
               next == FirstIndex(lines, start, Len(lines), IsHeading)
               end == IF next = 0 THEN Len(lines) + 1 ELSE next
               section == Strip(Join(SubSeq(lines, start, end - 1), <<"\n">>))
           IN Returned(IF section = <<>> THEN Placeholder ELSE section)

\* changelog is the file's text, or None when the path does not exist.
\* Indices are 1-based: Python's lines[start:end] is SubSeq(lines, start, end - 1)
\* with start and end one more than Python's.
extract_notes(changelog, tag) ==
    IF changelog = None THEN Raised("Missing changelog")
    ELSE
      LET target_heading == HeadingMark \o tag \o <<"]">>
          lines == SplitLines(changelog)
          IsTarget(line) == Strip(line) = target_heading
          IsHeading(line) == StartsWith(line, HeadingMark)
          found == FirstIndex(lines, 1, Len(lines), IsTarget)
      IN IF found = 0 THEN Raised("No changelog heading found")
         ELSE
           LET start == found + 1
               next == FirstIndex(lines, start, Len(lines), IsHeading)
               end == IF next = 0 THEN Len(lines) + 1 ELSE next
               section == Strip(Join(SubSeq(lines, start, end - 1), <<"\n">>))
           IN Returned(IF section = <<>> THEN Placeholder ELSE section)

(***************************************************************************)
(* Releases and assets: fetch_releases, pick_latest, find_asset.           *)
(***************************************************************************)
\* ReleaseAsset of either script; sha256 is the Homebrew script's field.
ReleaseAsset(name, size, download_url, sha256) ==
    [name |-> name, size |-> size, download_url |-> download_url, sha256 |-> sha256]

\* str(item.get("published_at", "")): "" when the key is missing, the text
\* "None" when the host gives null, else the ISO text of the instant.
PublishedStr(published_at) ==
    CASE published_at.form = "missing" -> <<>>
      [] published_at.form = "null" -> <<"N", "o", "n", "e">>
      [] published_at.form = "iso" -> <<"iso", published_at.secs>>

\* Release of either script; html_url and published_at are the Sparkle
\* script's fields.
Release(item, assets, parsed) ==
    [tag_name |-> item.tag_name, html_url |-> item.html_url, draft |-> item.draft,
     prerelease_flag |-> item.prerelease, published_at |-> PublishedStr(item.published_at),
     assets |-> assets, parsed |-> parsed]

\* Python's None where a Release is expected.
NoRelease ==
    [tag_name |-> None, html_url |-> None, draft |-> FALSE, prerelease_flag |-> FALSE,
     published_at |-> None, assets |-> <<>>, parsed |-> NoTag]

\* Python's None where a ReleaseAsset is expected.
NoAsset == ReleaseAsset(None, -1, None, None)

\* The digest a download of the location would hash to.
Sha256Of(download_url) == <<"sha256", download_url>>

\* The host's digest field: absent, "sha256:<hex>", bare hex, or another form.
\* Only the two hex forms give a digest.
parse_sha256_digest(raw) ==
    IF raw.form \in {"prefixed", "bare"} THEN raw.hex ELSE None

\* The Homebrew script reads the asset's digest, the Sparkle script does not.
AssetOf(which, asset) ==
    ReleaseAsset(asset.name, asset.size, asset.browser_download_url,
                 IF which = "homebrew" THEN parse_sha256_digest(asset.digest) ELSE None)

\* The releases built from the payload, before the draft filter.
RECURSIVE BuildReleases(_, _)
BuildReleases(which, payload) ==
    IF Len(payload) = 0 THEN <<>>
    ELSE LET item == payload[1]
             parsed == parse_tag(item.tag_name)
             rest == BuildReleases(which, Tail(payload))
         IN IF parsed = NoTag THEN rest
            ELSE <<Release(item,
                           [i \in 1..Len(item.assets) |-> AssetOf(which, item.assets[i])],
                           parsed)>> \o rest

\* A fetch_releases that returns the drafts too.
fetch_releases_with_drafts(which, payload) == BuildReleases(which, payload)

\* A fetch_releases that filters on the host's prerelease flag, not on draft.
fetch_releases_by_prerelease_flag(which, payload) ==
    LET NotFlagged(release) == ~release.prerelease_flag
    IN SelectSeq(BuildReleases(which, payload), NotFlagged)

fetch_releases(which, payload) ==
    LET NotDraft(release) == ~release.draft
    IN SelectSeq(BuildReleases(which, payload), NotDraft)

\* max(releases, key=...): the first release no other one's key exceeds.
pick_latest(releases) ==
    IF Len(releases) = 0 THEN NoRelease
    ELSE LET top == {i \in 1..Len(releases) :
                        \A j \in 1..Len(releases) :
                            ~KeyLess(version_key(releases[i].parsed),
                                     version_key(releases[j].parsed))}
         IN releases[CHOOSE i \in top : \A j \in top : i <= j]

\* short_version (Sparkle) and version_string (Homebrew).
short_version(parsed) ==
    LET base == StrOf(parsed.major) \o <<".">> \o StrOf(parsed.minor)
                \o <<".">> \o StrOf(parsed.patch)
    IN IF parsed.prerelease = None THEN base
       ELSE base \o <<"-">> \o parsed.prerelease

\* The first asset of the release with that name, or NoAsset where the code
\* raises RuntimeError.
find_asset(release, asset_name) ==
    LET hits == {i \in 1..Len(release.assets) : release.assets[i].name = asset_name}
    IN IF hits = {} THEN NoAsset
       ELSE release.assets[CHOOSE i \in hits : \A j \in hits : i <= j]

DOCKTER == <<"D", "o", "c", "k", "t", "e", "r", "-">>

BETA_QUALIFIER == <<"B", "e", "t", "a", "-">>

MACOS == <<"-", "m", "a", "c", "o", "s", "-">>

ZIP == <<".", "z", "i", "p">>

ARM64 == <<"a", "r", "m", "6", "4">>

X64 == <<"x", "6", "4">>

\* f"Dockter-v{version}-macos-{arch}.zip" and its Beta form.
StableAssetName(version, arch) ==
    DOCKTER \o <<"v">> \o version \o MACOS \o arch \o ZIP

BetaAssetName(version, arch) ==
    DOCKTER \o BETA_QUALIFIER \o <<"v">> \o version \o MACOS \o arch \o ZIP

(***************************************************************************)
(* Channel resolution in main().                                           *)
(***************************************************************************)
IsStableRelease(release) == release.parsed.prerelease = None

IsPrerelease(release) == release.parsed.prerelease # None

\* A Homebrew selection that lets any prerelease take the beta slot.
beta_track_homebrew_prerelease_first(stable, prerelease) ==
    IF prerelease # NoRelease THEN prerelease ELSE stable

\* Homebrew main(): beta_track, given that not both are None.
beta_track_homebrew(stable, prerelease) ==
    IF stable # NoRelease /\ prerelease # NoRelease
    THEN LET stable_key == version_key(stable.parsed)
             prerelease_key_value == version_key(prerelease.parsed)
         IN IF KeyLeq(prerelease_key_value, stable_key) THEN stable ELSE prerelease
    ELSE IF stable # NoRelease THEN stable ELSE prerelease

\* Sparkle main(): beta_track, given a stable release.
beta_track_sparkle(stable, prerelease) ==
    IF prerelease # NoRelease
       /\ KeyLess(version_key(stable.parsed), version_key(prerelease.parsed))
    THEN prerelease
    ELSE stable

(***************************************************************************)
(* Digests and signatures: sha256_for_asset, load_signing_key, sign_asset. *)
(***************************************************************************)
\* What a called function hands back: whether it raised, its value, the
\* cache it leaves and the locations it downloaded from.
Outcome(raised, value, cache, fetched) ==
    [raised |-> raised, value |-> value, cache |-> cache, fetched |-> fetched]

\* A digest cache keyed by the asset's name.
sha256_for_asset_by_name(asset, cache, netdown) ==
    IF asset.sha256 # None THEN Outcome(FALSE, asset.sha256, cache, <<>>)
    ELSE IF asset.name \in DOMAIN cache
         THEN Outcome(FALSE, cache[asset.name], cache, <<>>)
    ELSE IF netdown THEN Outcome(TRUE, None, cache, <<asset.download_url>>)
    ELSE Outcome(FALSE, Sha256Of(asset.download_url),
                 (asset.name :> Sha256Of(asset.download_url)) @@ cache,
                 <<asset.download_url>>)

\* cache maps download locations to digests; netdown says whether urlopen
\* raises for this request.
sha256_for_asset(asset, cache, netdown) ==
    IF asset.sha256 # None THEN Outcome(FALSE, asset.sha256, cache, <<>>)
    ELSE IF asset.download_url \in DOMAIN cache
         THEN Outcome(FALSE, cache[asset.download_url], cache, <<>>)
    ELSE IF netdown THEN Outcome(TRUE, None, cache, <<asset.download_url>>)
    ELSE Outcome(FALSE, Sha256Of(asset.download_url),
                 (asset.download_url :> Sha256Of(asset.download_url)) @@ cache,
                 <<asset.download_url>>)

\* The bytes a base64 text decodes to: byte i of n.
Bytes(n) == [i \in 1..n |-> i % 256]

\* A signing secret: absent, or a text that is blank or not, whose base64
\* decoding raises (padded = FALSE) or gives `decoded`.
Secret(given, blank, padded, decoded) ==
    [given |-> given, blank |-> blank, padded |-> padded, decoded |-> decoded]

\* A load_signing_key that takes a key of any length for no key.
load_signing_key_lenient(signing_secret) ==
    IF ~signing_secret.given \/ signing_secret.blank THEN [raised |-> FALSE, key |-> None]
    ELSE IF Len(signing_secret.decoded) = 32
         THEN [raised |-> FALSE, key |-> signing_secret.decoded]
    ELSE IF Len(signing_secret.decoded) = 64
         THEN [raised |-> FALSE, key |-> SubSeq(signing_secret.decoded, 1, 32)]
    ELSE [raised |-> FALSE, key |-> None]

\* A load_signing_key that takes the last 32 bytes of a 64-byte blob.
load_signing_key_tail_seed(signing_secret) ==
    IF ~signing_secret.given THEN [raised |-> FALSE, key |-> None]
    ELSE IF signing_secret.blank THEN [raised |-> FALSE, key |-> None]
    ELSE IF ~signing_secret.padded THEN [raised |-> TRUE, key |-> None]
    ELSE IF Len(signing_secret.decoded) = 32
         THEN [raised |-> FALSE, key |-> signing_secret.decoded]
    ELSE IF Len(signing_secret.decoded) = 64
         THEN [raised |-> FALSE, key |-> SubSeq(signing_secret.decoded, 33, 64)]
    ELSE [raised |-> TRUE, key |-> None]

\* The private key is modelled by its 32-byte seed.
load_signing_key(signing_secret) ==
    IF ~signing_secret.given THEN [raised |-> FALSE, key |-> None]
    ELSE IF signing_secret.blank THEN [raised |-> FALSE, key |-> None]
    ELSE IF ~signing_secret.padded THEN [raised |-> TRUE, key |-> None]
    ELSE IF Len(signing_secret.decoded) = 32
         THEN [raised |-> FALSE, key |-> signing_secret.decoded]
    ELSE IF Len(signing_secret.decoded) = 64
         THEN [raised |-> FALSE, key |-> SubSeq(signing_secret.decoded, 1, 32)]
    ELSE [raised |-> TRUE, key |-> None]

\* base64 of the detached signature of the payload under the key.
SignatureOf(private_key, payload) == <<"b64", <<"ed25519", private_key, payload>>>>

\* cache_dir maps a file name to the file there: the location its bytes were
\* downloaded from and their size, which is the size the host declares for
\* that asset.
sign_asset(asset, private_key, cache_dir, netdown) ==
    LET stale == \/ asset.name \notin DOMAIN cache_dir
                 \/ cache_dir[asset.name].size # asset.size
    IN IF stale /\ netdown THEN Outcome(TRUE, None, cache_dir, <<asset.download_url>>)
       ELSE LET dir == IF stale
                       THEN (asset.name :> [from |-> asset.download_url,
                                            size |-> asset.size]) @@ cache_dir
                       ELSE cache_dir
            IN Outcome(FALSE, SignatureOf(private_key, dir[asset.name].from), dir,
                       IF stale THEN <<asset.download_url>> ELSE <<>>)

(***************************************************************************)
(* Rendering and writing.                                                  *)
(***************************************************************************)
\* The longest suffix of s made of digits.
RECURSIVE DigitSuffix(_)
DigitSuffix(s) ==
    IF Len(s) > 0 /\ IsDigitChar(s[Len(s)])
    THEN DigitSuffix(SubSeq(s, 1, Len(s) - 1)) \o <<s[Len(s)]>>
    ELSE <<>>

EndsWith(s, p) == Len(s) >= Len(p) /\ SubSeq(s, Len(s) - Len(p) + 1, Len(s)) = p

Min(x, y) == IF x < y THEN x ELSE y

Max(x, y) == IF x < y THEN y ELSE x

\* (?:beta|b)[.-]?(\d+)$ with IGNORECASE: the digits that end the identifier,
\* when "b" or "beta" and at most one separator stand right before them.
\* "beta" ends in "a", so the text before the digits must end in "beta" or "b".
BetaNumber(prerelease) ==
    LET digits == DigitSuffix(prerelease)
        before == LowerStr(SubSeq(prerelease, 1, Len(prerelease) - Len(digits)))
        Named(text) == EndsWith(text, <<"b">>) \/ EndsWith(text, <<"b", "e", "t", "a">>)
        separated == Len(before) > 0 /\ before[Len(before)] \in {".", "-"}
    IN IF Len(digits) = 0 THEN None
       ELSE IF Named(before) THEN digits
       ELSE IF separated /\ Named(SubSeq(before, 1, Len(before) - 1)) THEN digits
       ELSE None

\* core and stage of sparkle_build_version; the build number is
\* core * 100000 + stage, and stage is below 100000.
BuildParts(parsed) ==
    [core |-> (parsed.major * 1000000) + (parsed.minor * 1000) + parsed.patch,
     stage |-> IF parsed.prerelease = None THEN 90000
               ELSE IF BetaNumber(parsed.prerelease) # None
                    THEN Max(1, Min(IntOf(BetaNumber(parsed.prerelease)), 89999))
               ELSE 50000]

\* The decimal text of n in at least five digits.
Pad5(n) ==
    LET text == StrOf(n)
    IN [i \in 1..(5 - Len(text)) |-> "0"] \o text

\* str((core * 100_000) + stage): the number exceeds the integers of the
\* checker, so its text is put together from core and the five digits of stage.
sparkle_build_version(parsed) ==
    LET parts == BuildParts(parsed)
    IN IF parts.core = 0 THEN StrOf(parts.stage)
       ELSE StrOf(parts.core) \o Pad5(parts.stage)

\* A to_rfc2822 that formats a fixed instant when there is no timestamp.
to_rfc2822_epoch(iso_timestamp, now) ==
    IF iso_timestamp = <<>> THEN [raised |-> FALSE, text |-> <<"rfc2822", 0>>]
    ELSE IF iso_timestamp[1] # "iso" THEN [raised |-> TRUE, text |-> <<>>]
    ELSE [raised |-> FALSE, text |-> <<"rfc2822", iso_timestamp[2]>>]

\* now is the second datetime.now() reads; fromisoformat raises ValueError on
\* a text that is no ISO timestamp.
to_rfc2822(iso_timestamp, now) ==
    IF iso_timestamp = <<>> THEN [raised |-> FALSE, text |-> <<"rfc2822", now>>]
    ELSE IF iso_timestamp[1] # "iso" THEN [raised |-> TRUE, text |-> <<>>]
    ELSE [raised |-> FALSE, text |-> <<"rfc2822", iso_timestamp[2]>>]

CDATA_END == <<"]", "]", ">">>

CDATA_SPLIT == <<"]", "]", "]", "]", ">", "<", "!", "[", "C", "D", "A", "T", "A", "[", ">">>

\* str.replace(old, new)
RECURSIVE Replace(_, _, _)
Replace(s, old, new) ==
    IF Len(s) = 0 THEN <<>>
    ELSE IF StartsWith(s, old) THEN new \o Replace(Drop(s, Len(old)), old, new)
    ELSE <<s[1]>> \o Replace(Tail(s), old, new)

\* The appcast text, as the values its template interpolates; signature is
\* None or "" when the enclosure carries no sparkle:edSignature.
render_appcast(channel_name, release, asset, text, signature, now) ==
    LET published == to_rfc2822(release.published_at, now)
    IN [raised |-> published.raised,
        text |-> [channel |-> channel_name,
                  title |-> short_version(release.parsed),
                  link |-> release.html_url,
                  version |-> sparkle_build_version(release.parsed),
                  description |-> Replace(text, CDATA_END, CDATA_SPLIT),
                  pubDate |-> published.text,
                  url |-> asset.download_url,
                  edSignature |-> IF signature = None \/ signature = <<>>
                                  THEN None ELSE signature,
                  length |-> asset.size]]

\* render_stable_cask and render_beta_cask.
render_cask(cask, version, arm_url, arm_sha256, intel_url, intel_sha256) ==
    [cask |-> cask, version |-> version,
     arm_url |-> arm_url, arm_sha256 |-> arm_sha256,
     intel_url |-> intel_url, intel_sha256 |-> intel_sha256]

\* A file that does not exist.
NoFile == [absent |-> TRUE]

\* A write_if_changed that writes whether or not the content differs.
write_if_changed_always(disk, path, content) ==
    [changed |-> TRUE, disk |-> [disk EXCEPT ![path] = content]]

\* disk maps each output path to its content, or to NoFile.
write_if_changed(disk, path, content) ==
    IF disk[path] = content THEN [changed |-> FALSE, disk |-> disk]
    ELSE [changed |-> TRUE, disk |-> [disk EXCEPT ![path] = content]]

(***************************************************************************)
(* The release host, the changelog file and the configuration of a run.    *)
(***************************************************************************)
\* Most releases the host lists in a run.
MaxReleases == 2

TagStable == <<"v", "1", ".", "2", ".", "0">>

TagBetaOld == <<"v", "1", ".", "2", ".", "0", "-", "b", "e", "t", "a", ".", "2">>

TagBetaNew == <<"v", "1", ".", "3", ".", "0", "-", "b", "e", "t", "a", ".", "1">>

TagStableNew == <<"v", "2", ".", "0", ".", "0">>

TagNightly == <<"n", "i", "g", "h", "t", "l", "y">>

\* The tags the host may list, oldest first; the last one is no version tag.
HostTags == <<TagBetaOld, TagStable, TagBetaNew, TagStableNew, TagNightly>>

HostAsset(tag, name, digests) ==
    [name |-> name, size |-> Len(name),
     browser_download_url |-> <<tag, name>>,
     digest |-> [form |-> digests, hex |-> Sha256Of(<<tag, name>>)]]

\* The assets uploaded for a tag, named after it: kit says which families
\* ("all", "stable", "beta") were uploaded.
HostAssets(tag, kit, digests) ==
    LET version == Drop(tag, 1)
        stable == <<HostAsset(tag, StableAssetName(version, ARM64), digests),
                    HostAsset(tag, StableAssetName(version, X64), digests)>>
        beta == <<HostAsset(tag, BetaAssetName(version, ARM64), digests),
                  HostAsset(tag, BetaAssetName(version, X64), digests)>>
    IN IF tag = TagNightly THEN <<>>
       ELSE (IF kit \in {"all", "stable"} THEN stable ELSE <<>>)
            \o (IF kit \in {"all", "beta"} THEN beta ELSE <<>>)

\* The JSON item of one listed release.
HostItem(listed, env) ==
    [tag_name |-> listed.tag, draft |-> listed.draft,
     prerelease |-> "-" \in Range(listed.tag),
     html_url |-> <<"html", listed.tag>>,
     published_at |-> [form |-> env.published, secs |-> 7],
     assets |-> HostAssets(listed.tag, env.kit, env.digests)]

\* The payload the release host answers with.
HostPayload(env) == [i \in 1..Len(env.listed) |-> HostItem(env.listed[i], env)]

NotesLines3(tag) == <<HeadingMark \o tag \o <<"]">>, <<"-", " ", "A">>, <<>>>>

\* CHANGELOG.md: "full" has a section for every version tag, "partial" lacks
\* the one of the newest prerelease.
ChangelogFile(kind) ==
    Join(NotesLines3(TagStableNew)
         \o (IF kind = "full" THEN NotesLines3(TagBetaNew) ELSE <<>>)
         \o NotesLines3(TagStable) \o NotesLines3(TagBetaOld), <<"\n">>)

\* The lists of at most n releases, in the order of HostTags from index k on,
\* each a draft or not.
RECURSIVE Listings(_, _)
Listings(k, n) ==
    IF k > Len(HostTags) \/ n = 0 THEN {<<>>}
    ELSE Listings(k + 1, n)
         \cup {<<[tag |-> HostTags[k], draft |-> d]>> \o rest :
                  d \in BOOLEAN, rest \in Listings(k + 1, n - 1)}

NoSecret == Secret(FALSE, FALSE, FALSE, <<>>)

\* Secrets that load_signing_key tells apart: absent, blank, a 32-byte seed,
\* a 64-byte seed and public key, other lengths, and text base64 rejects.
Secrets ==
    {NoSecret, Secret(TRUE, TRUE, TRUE, <<>>), Secret(TRUE, FALSE, FALSE, <<>>)}
    \cup {Secret(TRUE, FALSE, TRUE, Bytes(n)) : n \in {0, 31, 32, 33, 64, 65}}

Env(listed, kit, digests, published, changelog, secret, require) ==
    [listed |-> listed, kit |-> kit, digests |-> digests, published |-> published,
     changelog |-> changelog, secret |-> secret, require |-> require]

\* A listing with a stable release and a newer prerelease, for the runs that
\* vary the configuration only.
SampleListing == <<[tag |-> TagStable, draft |-> FALSE], [tag |-> TagBetaNew, draft |-> FALSE]>>

HomebrewEnvs ==
    {Env(l, kit, dg, "iso", "full", NoSecret, FALSE) :
        l \in Listings(1, MaxReleases), kit \in {"all", "stable", "beta"},
        dg \in {"prefixed", "absent"}}

SparkleEnvs ==
    {Env(l, kit, "absent", pub, cl, c[1], c[2]) :
        l \in Listings(1, MaxReleases), kit \in {"all", "stable", "beta"},
        pub \in {"iso", "missing", "null"}, cl \in {"full", "partial"},
        c \in {<<NoSecret, FALSE>>, <<Secret(TRUE, FALSE, TRUE, Bytes(32)), TRUE>>}}
    \cup {Env(SampleListing, "all", "absent", "iso", "full", sec, req) :
            sec \in Secrets, req \in BOOLEAN}

(***************************************************************************)
(* main() of the two scripts, one action per stretch of its code.          *)
(***************************************************************************)
SparkleFiles == {"stable-arm64.xml", "stable-x64.xml", "beta-arm64.xml", "beta-x64.xml"}

HomebrewFiles == {"dockter.rb", "dockter@beta.rb"}

OutputFiles(which) == IF which = "sparkle" THEN SparkleFiles ELSE HomebrewFiles

\* main()'s locals before its first statement.
Local0 ==
    [private_key |-> None, releases |-> <<>>,
     stable |-> NoRelease, prerelease |-> NoRelease, beta_track |-> NoRelease,
     assets |-> <<>>, stable_notes |-> <<>>, beta_notes |-> <<>>,
     unique_assets |-> <<>>, cache_dir |-> <<>>, signatures |-> <<>>,
     sha_cache |-> <<>>, appcasts |-> <<>>]

\* Nothing done yet in a run that found `disk` on disk.
Log0(disk) ==
    [error |-> "", outcome |-> "", fetches |-> 0, lookups |-> 0, downloads |-> <<>>,
     signed |-> <<>>, written |-> {}, reports |-> <<>>, before |-> disk]

FirstPc(which) == IF which = "sparkle" THEN "config" ELSE "fetch"

RunInit ==
    /\ script \in {"homebrew", "sparkle"}
    /\ input \in (IF script = "sparkle" THEN SparkleEnvs ELSE HomebrewEnvs)
    /\ pc = FirstPc(script)
    /\ run = 1
    /\ clock = 0
    /\ local = Local0
    /\ files = [f \in OutputFiles(script) |-> NoFile]
    /\ log = Log0(files)

\* An uncaught exception ends the run.
Raise(what, newlog) ==
    /\ pc' = "failed"
    /\ log' = [newlog EXCEPT !.error = what]

\* Sparkle main(), lines 346-355: the key is loaded and the requirement
\* checked.
SparkleConfig ==
    /\ script = "sparkle" /\ pc = "config"
    /\ LET loaded == load_signing_key(input.secret)
       IN IF loaded.raised
          THEN Raise("config: unsupported key", log) /\ UNCHANGED local
          ELSE IF input.require /\ loaded.key = None
          THEN Raise("config: missing key", log) /\ UNCHANGED local
          ELSE /\ pc' = "fetch"
               /\ local' = [local EXCEPT !.private_key = loaded.key]
               /\ UNCHANGED log
    /\ UNCHANGED <<tagged, cmp, notes, signer, script, input, run, clock, files>>

\* fetch_releases: one request to the host, which answers or fails.
Fetch ==
    /\ pc = "fetch"
    /\ \E netdown \in BOOLEAN :
         LET asked == [log EXCEPT !.fetches = @ + 1]
         IN IF netdown
            THEN Raise("fetch", asked) /\ UNCHANGED local
            ELSE /\ pc' = "select"
                 /\ log' = asked
                 /\ local' = [local EXCEPT
                                !.releases = fetch_releases(script, HostPayload(input))]
    /\ UNCHANGED <<tagged, cmp, notes, signer, script, input, run, clock, files>>

LatestStable(releases) == pick_latest(SelectSeq(releases, IsStableRelease))

LatestPrerelease(releases) == pick_latest(SelectSeq(releases, IsPrerelease))

\* Homebrew main(), lines 324-347.
HomebrewSelect ==
    /\ script = "homebrew" /\ pc = "select"
    /\ LET stable == LatestStable(local.releases)
           prerelease == LatestPrerelease(local.releases)
       IN /\ local' = [local EXCEPT
                         !.stable = stable, !.prerelease = prerelease,
                         !.beta_track = IF stable = NoRelease /\ prerelease = NoRelease
                                        THEN NoRelease
                                        ELSE beta_track_homebrew(stable, prerelease)]
          /\ IF stable = NoRelease /\ prerelease = NoRelease
             THEN pc' = "done" /\ log' = [log EXCEPT !.outcome = "no releases"]
             ELSE pc' = "stable_cask" /\ UNCHANGED log
    /\ UNCHANGED <<tagged, cmp, notes, signer, script, input, run, clock, files>>

\* The digests of the two assets of a cask, in order: what the two calls of
\* sha256_for_asset leave, stopping at the first that raises.
TwoDigests(arm, intel, cache, down1, down2) ==
    LET first == sha256_for_asset(arm, cache, down1)
        second == sha256_for_asset(intel, first.cache, down2)
    IN IF first.raised THEN [raised |-> TRUE, arm |-> None, intel |-> None,
                             cache |-> first.cache, fetched |-> first.fetched]
       ELSE [raised |-> second.raised, arm |-> first.value, intel |-> second.value,
             cache |-> second.cache, fetched |-> first.fetched \o second.fetched]

\* One cask: two find_asset, two sha256_for_asset, one write_if_changed.
\* Yields the next pc, locals, files and log.
CaskStep(release, arm_name, intel_name, cask, path, next, down1, down2) ==
    LET arm == find_asset(release, arm_name)
        intel == find_asset(release, intel_name)
        looked == [log EXCEPT !.lookups = @ + (IF arm = NoAsset THEN 1 ELSE 2)]
        shas == TwoDigests(arm, intel, local.sha_cache, down1, down2)
        fetched == [looked EXCEPT !.downloads = @ \o shas.fetched]
        wrote == write_if_changed(files, path,
                    render_cask(cask, short_version(release.parsed),
                                arm.download_url, shas.arm,
                                intel.download_url, shas.intel))
    IN IF arm = NoAsset \/ intel = NoAsset
       THEN Raise("asset", looked) /\ UNCHANGED <<local, files>>
       ELSE IF shas.raised
       THEN /\ Raise("download", fetched)
            /\ local' = [local EXCEPT !.sha_cache = shas.cache]
            /\ UNCHANGED files
       ELSE /\ pc' = next
            /\ local' = [local EXCEPT !.sha_cache = shas.cache]
            /\ files' = wrote.disk
            /\ log' = [fetched EXCEPT
                         !.written = IF wrote.changed THEN @ \cup {path} ELSE @,
                         !.reports = Append(@, <<path, IF wrote.changed THEN "updated"
                                                       ELSE "unchanged">>)]

\* Homebrew main(), lines 349-377: the stable cask.
HomebrewStable ==
    /\ script = "homebrew" /\ pc = "stable_cask"
    /\ IF local.stable = NoRelease
       THEN /\ pc' = "beta_cask"
            /\ log' = [log EXCEPT !.reports = Append(@, <<"dockter.rb", "no stable releases yet">>)]
            /\ UNCHANGED <<local, files>>
       ELSE \E down1 \in BOOLEAN, down2 \in BOOLEAN :
              LET stable_version == short_version(local.stable.parsed)
              IN CaskStep(local.stable,
                          StableAssetName(stable_version, ARM64),
                          StableAssetName(stable_version, X64),
                          "dockter", "dockter.rb", "beta_cask", down1, down2)
    /\ UNCHANGED <<tagged, cmp, notes, signer, script, input, run, clock>>

\* Homebrew main(), lines 379-403: the beta cask.
HomebrewBeta ==
    /\ script = "homebrew" /\ pc = "beta_cask"
    /\ \E down1 \in BOOLEAN, down2 \in BOOLEAN :
         LET beta_version == short_version(local.beta_track.parsed)
         IN CaskStep(local.beta_track,
                     BetaAssetName(beta_version, ARM64),
                     BetaAssetName(beta_version, X64),
                     "dockter@beta", "dockter@beta.rb", "done", down1, down2)
    /\ UNCHANGED <<tagged, cmp, notes, signer, script, input, run, clock>>

\* Sparkle main(), lines 359-385.
SparkleSelect ==
    /\ script = "sparkle" /\ pc = "select"
    /\ LET stable == LatestStable(local.releases)
           prerelease == LatestPrerelease(local.releases)
       IN IF stable = NoRelease /\ prerelease = NoRelease
          THEN /\ pc' = "done"
               /\ log' = [log EXCEPT !.outcome = "no releases"]
               /\ local' = [local EXCEPT !.stable = stable, !.prerelease = prerelease]
          ELSE IF stable = NoRelease
          THEN /\ Raise("no stable release", log)
               /\ local' = [local EXCEPT !.stable = stable, !.prerelease = prerelease]
          ELSE /\ pc' = "assets"
               /\ local' = [local EXCEPT
                              !.stable = stable, !.prerelease = prerelease,
                              !.beta_track = beta_track_sparkle(stable, prerelease)]
               /\ UNCHANGED log
    /\ UNCHANGED <<tagged, cmp, notes, signer, script, input, run, clock, files>>

\* The number of find_asset calls made when they are made in this order and
\* the first miss raises.
LookupsMade(found) ==
    LET misses == {i \in 1..Len(found) : found[i] = NoAsset}
    IN IF misses = {} THEN Len(found) ELSE CHOOSE i \in misses : \A j \in misses : i <= j

\* Sparkle main(), lines 387-400: the four assets.
SparkleAssets ==
    /\ script = "sparkle" /\ pc = "assets"
    /\ LET stable_version == short_version(local.stable.parsed)
           beta_version == short_version(local.beta_track.parsed)
           found == <<find_asset(local.stable, StableAssetName(stable_version, ARM64)),
                      find_asset(local.stable, StableAssetName(stable_version, X64)),
                      find_asset(local.beta_track, BetaAssetName(beta_version, ARM64)),
                      find_asset(local.beta_track, BetaAssetName(beta_version, X64))>>
           looked == [log EXCEPT !.lookups = @ + LookupsMade(found)]
       IN IF \E i \in 1..4 : found[i] = NoAsset
          THEN Raise("asset", looked) /\ UNCHANGED local
          ELSE /\ pc' = "notes"
               /\ log' = looked
               /\ local' = [local EXCEPT !.assets = found]
    /\ UNCHANGED <<tagged, cmp, notes, signer, script, input, run, clock, files>>

\* A dict literal keyed by asset name: a name keeps its first place and its
\* last value.
UniqueAssets(assets) ==
    LET First(i) == \A j \in 1..(i - 1) : assets[j].name # assets[i].name
        LastOf(i) == CHOOSE j \in 1..Len(assets) :
                        /\ assets[j].name = assets[i].name
                        /\ \A k \in (j + 1)..Len(assets) : assets[k].name # assets[i].name
        firsts == SelectSeq([i \in 1..Len(assets) |-> i], First)
    IN [k \in 1..Len(firsts) |-> assets[LastOf(firsts[k])]]

\* Sparkle main(), lines 402-416: the notes of both channels, and the assets
\* to sign when there is a key.
SparkleNotes ==
    /\ script = "sparkle" /\ pc = "notes"
    /\ LET stable_notes == extract_notes(ChangelogFile(input.changelog), local.stable.tag_name)
           beta_notes == extract_notes(ChangelogFile(input.changelog), local.beta_track.tag_name)
       IN IF ~stable_notes.ok \/ ~beta_notes.ok
          THEN Raise("changelog", log) /\ UNCHANGED local
          ELSE /\ pc' = "sign"
               /\ local' = [local EXCEPT
                              !.stable_notes = stable_notes.text,
                              !.beta_notes = beta_notes.text,
                              !.unique_assets = IF local.private_key = None THEN <<>>
                                                ELSE UniqueAssets(local.assets)]
               /\ UNCHANGED log
    /\ UNCHANGED <<tagged, cmp, notes, signer, script, input, run, clock, files>>

\* Sparkle main(), lines 417-418: one turn of the loop over unique_assets.
SparkleSignNext ==
    /\ script = "sparkle" /\ pc = "sign" /\ Len(local.unique_assets) > 0
    /\ \E netdown \in BOOLEAN :
         LET asset == local.unique_assets[1]
             signed == sign_asset(asset, local.private_key, local.cache_dir, netdown)
             fetched == [log EXCEPT !.downloads = @ \o signed.fetched]
         IN IF signed.raised
            THEN Raise("download", fetched) /\ UNCHANGED local
            ELSE /\ pc' = "sign"
                 /\ log' = [fetched EXCEPT !.signed = Append(@, asset.download_url)]
                 /\ local' = [local EXCEPT
                                !.unique_assets = Tail(@),
                                !.cache_dir = signed.cache,
                                !.signatures = (asset.name :> signed.value) @@ @]
    /\ UNCHANGED <<tagged, cmp, notes, signer, script, input, run, clock, files>>

\* signatures.get(name, name)
SignatureFor_name_default(signatures, name) ==
    IF name \in DOMAIN signatures THEN signatures[name] ELSE name

\* signatures.get(name)
SignatureFor(signatures, name) ==
    IF name \in DOMAIN signatures THEN signatures[name] ELSE None

\* Sparkle main(), lines 420-453: the four appcasts are rendered.
SparkleRender ==
    /\ script = "sparkle" /\ pc = "sign" /\ Len(local.unique_assets) = 0
    /\ LET Cast(channel, release, asset, text) ==
               render_appcast(channel, release, asset, text,
                              SignatureFor(local.signatures, asset.name), clock)
           casts == <<Cast("Stable", local.stable, local.assets[1], local.stable_notes),
                      Cast("Stable", local.stable, local.assets[2], local.stable_notes),
                      Cast("Beta", local.beta_track, local.assets[3], local.beta_notes),
                      Cast("Beta", local.beta_track, local.assets[4], local.beta_notes)>>
       IN IF \E i \in 1..4 : casts[i].raised
          THEN Raise("timestamp", log) /\ UNCHANGED local
          ELSE /\ pc' = "write"
               /\ local' = [local EXCEPT !.appcasts = [i \in 1..4 |-> casts[i].text]]
               /\ UNCHANGED log
    /\ UNCHANGED <<tagged, cmp, notes, signer, script, input, run, clock, files>>

SparklePaths == <<"stable-arm64.xml", "stable-x64.xml", "beta-arm64.xml", "beta-x64.xml">>

\* The loop of write_if_changed over paths[i..]: the disk and the log it
\* leaves.
RECURSIVE WriteAll(_, _, _, _, _)
WriteAll(paths, contents, i, disk, sofar) ==
    IF i > Len(paths) THEN [disk |-> disk, log |-> sofar]
    ELSE LET wrote == write_if_changed(disk, paths[i], contents[i])
         IN WriteAll(paths, contents, i + 1, wrote.disk,
                     [sofar EXCEPT
                        !.written = IF wrote.changed THEN @ \cup {paths[i]} ELSE @,
                        !.reports = Append(@, <<paths[i], IF wrote.changed THEN "updated"
                                                          ELSE "unchanged">>)])

\* Sparkle main(), lines 455-463: the four files are written.
SparkleWrite ==
    /\ script = "sparkle" /\ pc = "write"
    /\ LET done == WriteAll(SparklePaths, local.appcasts, 1, files, log)
       IN /\ files' = done.disk
          /\ log' = [done.log EXCEPT !.outcome = "complete"]
          /\ pc' = "done"
    /\ UNCHANGED <<tagged, cmp, notes, signer, script, input, run, clock, local>>

\* The script is run again on the same inputs, in the same second or a later
\* one; it finds the files the first run left.
Rerun ==
    /\ pc = "done" /\ run = 1
    /\ run' = 2
    /\ pc' = FirstPc(script)
    /\ local' = Local0
    /\ log' = Log0(files)
    /\ \E later \in {0, 1} : clock' = clock + later
    /\ UNCHANGED <<tagged, cmp, notes, signer, script, input, files>>

InitRun ==
    /\ RunInit
    /\ tagged = Idle /\ cmp = Idle /\ notes = Idle /\ signer = Idle

NextRun ==
    \/ SparkleConfig
    \/ Fetch
    \/ HomebrewSelect
    \/ HomebrewStable
    \/ HomebrewBeta
    \/ SparkleSelect
    \/ SparkleAssets
    \/ SparkleNotes
    \/ SparkleSignNext
    \/ SparkleRender
    \/ SparkleWrite
    \/ Rerun

Spec == InitRun /\ [][NextRun]_vars

(***************************************************************************)
(* Comparator harness: version_key applied to two parsed tags.             *)
(***************************************************************************)
\* Most segments in a prerelease identifier of the harness.
MaxSegs == 2

\* Segments the identifiers are built from: two alphabetic ones whose order
\* depends on case folding, two numeric ones whose order as text and as
\* integers differ.
SegPool == {<<"a", "l", "p", "h", "a">>, <<"B", "e", "t", "a">>, <<"2">>, <<"1", "0">>}

RECURSIVE IdentsOf(_)
IdentsOf(n) ==
    IF n = 1 THEN SegPool
    ELSE {id \o <<sep>> \o seg :
            id \in IdentsOf(n - 1), sep \in {".", "-"}, seg \in SegPool}

Identifiers == UNION {IdentsOf(n) : n \in 1..MaxSegs}

\* Numeric triples of the stable tags, and those that also carry prereleases.
NumTriples == {<<1, 2, 0>>, <<1, 2, 1>>, <<1, 3, 0>>, <<2, 0, 0>>}

PreTriples == {<<1, 2, 0>>, <<1, 3, 0>>}

Tags ==
    {ParsedTag(n[1], n[2], n[3], None) : n \in NumTriples}
    \cup {ParsedTag(n[1], n[2], n[3], p) : n \in PreTriples, p \in Identifiers}

NoKey == <<-1, -1, -1, -1, <<>>>>

CmpInit ==
    \E a \in Tags :
        cmp = [a |-> a, b |-> NoTag, done |-> FALSE, ka |-> NoKey, kb |-> NoKey,
               va |-> <<>>, vb |-> <<>>]

\* key=lambda release: version_key(release.parsed), on cmp.a and a second tag,
\* and sparkle_version = sparkle_build_version(release.parsed) of both.
Compare ==
    /\ ~cmp.done
    /\ \E b \in Tags :
         cmp' = [cmp EXCEPT !.b = b, !.done = TRUE,
                           !.ka = version_key(cmp.a), !.kb = version_key(b),
                           !.va = sparkle_build_version(cmp.a),
                           !.vb = sparkle_build_version(b)]
    /\ UNCHANGED <<tagged, notes, signer, script, input, pc, run, clock, local, files, log>>

InitOrder ==
    /\ CmpInit
    /\ tagged = Idle /\ notes = Idle /\ signer = Idle /\ script = Idle /\ input = Idle
    /\ pc = Idle /\ run = Idle /\ clock = Idle /\ local = Idle
    /\ files = Idle /\ log = Idle

NextOrder == Compare

SpecOrder == InitOrder /\ [][NextOrder]_vars


(***************************************************************************)
(* Extractor harness: extract_notes applied to a changelog and a tag.      *)
(***************************************************************************)
\* Most lines in a changelog of the harness.
MaxLines == 4

TagV1 == <<"v", "1", ".", "0", ".", "0">>

TagV0 == <<"v", "0", ".", "9", ".", "0">>

LineA == <<"-", " ", "A">>

LineB == <<"-", " ", "B">>

LineC == <<"-", " ", "C">>

\* Lines the changelogs are built from: the two headings, a heading with
\* whitespace around it, an entry, an indented entry with a trailing blank,
\* and an empty line.
LinePool ==
    { HeadingMark \o TagV1 \o <<"]">>,
      <<" ">> \o HeadingMark \o TagV1 \o <<"]", " ">>,
      HeadingMark \o TagV0 \o <<"]">>,
      LineA,
      <<" ", " ">> \o LineB \o <<" ">>,
      <<>> }

\* The changelog of the specification's example.
ExampleLines ==
    << HeadingMark \o TagV1 \o <<"]">>, LineA, LineB,
       HeadingMark \o TagV0 \o <<"]">>, LineC >>

RECURSIVE LineSeqs(_)
LineSeqs(n) ==
    IF n = 0 THEN {<<>>}
    ELSE {Append(ls, l) : ls \in LineSeqs(n - 1), l \in LinePool}

Changelogs ==
    {Join(ls, <<"\n">>) : ls \in UNION {LineSeqs(n) : n \in 0..MaxLines}}
    \cup {Join(ExampleLines, <<"\n">>), None}

NotesInit ==
    \E text \in Changelogs :
        notes = [changelog |-> text, tag |-> None, done |-> FALSE, out |-> Raised("")]

ExtractNotes ==
    /\ ~notes.done
    /\ \E tag \in {TagV1, TagV0} :
         notes' = [notes EXCEPT !.tag = tag, !.done = TRUE,
                               !.out = extract_notes(notes.changelog, tag)]
    /\ UNCHANGED <<tagged, cmp, signer, script, input, pc, run, clock, local, files, log>>

InitNotes ==
    /\ NotesInit
    /\ tagged = Idle /\ cmp = Idle /\ signer = Idle /\ script = Idle /\ input = Idle
    /\ pc = Idle /\ run = Idle /\ clock = Idle /\ local = Idle
    /\ files = Idle /\ log = Idle

NextNotes == ExtractNotes

SpecNotes == InitNotes /\ [][NextNotes]_vars

(***************************************************************************)
(* Signer harness: the requests one run makes of its cache.                *)
(***************************************************************************)
\* Most requests of a run of the harness.
MaxRequests == 2

\* The size of what is at a location; two of the locations agree on it.
SizeAt(download_url) == IF download_url = <<"r3">> THEN 6 ELSE 5

\* Assets that share or do not share a name and a location; the Homebrew
\* ones may carry the host's digest of what is at the location.
HarnessAssets(which) ==
    LET named == {<<name, download_url>> :
                     name \in {<<"a", ".", "z", "i", "p">>, <<"b", ".", "z", "i", "p">>},
                     download_url \in {<<"r1">>, <<"r2">>, <<"r3">>}}
    IN {ReleaseAsset(at[1], SizeAt(at[2]), at[2], None) : at \in named}
       \cup (IF which = "homebrew"
              THEN {ReleaseAsset(at[1], SizeAt(at[2]), at[2], Sha256Of(at[2])) : at \in named}
              ELSE {})

SignerInit ==
    \E which \in {"homebrew", "sparkle"} :
        signer = [which |-> which, cache |-> <<>>, requests |-> <<>>, raised |-> FALSE]

\* What the harness keeps of a request: the asset, the value returned, the
\* locations downloaded from, and whether a digest or signature was computed.
Request(asset, out, computed) ==
    [asset |-> asset, value |-> out.value, fetched |-> out.fetched, computed |-> computed]

\* sha256_for_asset with the run's sha_cache.
Sha256Request ==
    /\ signer.which = "homebrew" /\ ~signer.raised /\ Len(signer.requests) < MaxRequests
    /\ \E asset \in HarnessAssets("homebrew"), netdown \in BOOLEAN :
         LET out == sha256_for_asset(asset, signer.cache, netdown)
         IN signer' = [signer EXCEPT
                         !.cache = out.cache,
                         !.raised = out.raised,
                         !.requests = Append(@, Request(asset, out, out.fetched # <<>>))]
    /\ UNCHANGED <<tagged, cmp, notes, script, input, pc, run, clock, local, files, log>>

\* sign_asset with the run's cache_dir; it signs whenever it returns.
SignRequest ==
    /\ signer.which = "sparkle" /\ ~signer.raised /\ Len(signer.requests) < MaxRequests
    /\ \E asset \in HarnessAssets("sparkle"), netdown \in BOOLEAN :
         LET out == sign_asset(asset, Bytes(32), signer.cache, netdown)
         IN signer' = [signer EXCEPT
                         !.cache = out.cache,
                         !.raised = out.raised,
                         !.requests = Append(@, Request(asset, out, ~out.raised))]
    /\ UNCHANGED <<tagged, cmp, notes, script, input, pc, run, clock, local, files, log>>

InitSigner ==
    /\ SignerInit
    /\ tagged = Idle /\ cmp = Idle /\ notes = Idle /\ script = Idle /\ input = Idle
    /\ pc = Idle /\ run = Idle /\ clock = Idle /\ local = Idle
    /\ files = Idle /\ log = Idle

NextSigner == Sha256Request \/ SignRequest

SpecSigner == InitSigner /\ [][NextSigner]_vars

(***************************************************************************)
(* Tag harness: parse_tag applied to a tag text.                           *)
(***************************************************************************)
\* Most characters the harness puts after a tag text.
MaxTrail == 1

\* What the text starts with: the letter v, or something else.
TagHeads == {<<"v">>, <<"V">>, <<>>, <<"x", "v">>, <<" ", "v">>}

\* The texts between the dots: digits, nothing, and digits with a letter.
TagComponents == {<<"0">>, <<"1", "2">>, <<>>, <<"1", "a">>}

\* What follows the third component: nothing, identifiers the pattern takes
\* and texts it does not.
TagSuffixes ==
    {<<>>, <<"-">>, <<"-", "b">>, <<"-", "r", "c", ".", "1">>, <<"-", "B", "-", "2">>,
     <<"-", "b", "_", "1">>, <<".", "4">>, <<"+", "b">>}

\* The texts of at most n characters out of a newline, a space and a letter.
RECURSIVE Trails(_)
Trails(n) ==
    IF n = 0 THEN {<<>>}
    ELSE Trails(n - 1)
         \cup {t \o <<c>> : t \in {u \in Trails(n - 1) : Len(u) = n - 1},
                           c \in {"\n", " ", "x"}}

TagTexts ==
    {head \o c1 \o <<".">> \o c2 \o <<".">> \o c3 \o suffix \o trail :
        head \in TagHeads, c1 \in TagComponents, c2 \in TagComponents,
        c3 \in TagComponents, suffix \in TagSuffixes, trail \in Trails(MaxTrail)}

TaggedInit ==
    \E tag \in TagTexts : tagged = [tag |-> tag, done |-> FALSE, parsed |-> NoTag]

\* parsed = parse_tag(item.get("tag_name", ""))
ParseTag ==
    /\ ~tagged.done
    /\ tagged' = [tagged EXCEPT !.done = TRUE, !.parsed = parse_tag(tagged.tag)]
    /\ UNCHANGED <<cmp, notes, signer, script, input, pc, run, clock, local, files, log>>

InitTags ==
    /\ TaggedInit
    /\ cmp = Idle /\ notes = Idle /\ signer = Idle /\ script = Idle /\ input = Idle
    /\ pc = Idle /\ run = Idle /\ clock = Idle /\ local = Idle
    /\ files = Idle /\ log = Idle

NextTags == ParseTag

SpecTags == InitTags /\ [][NextTags]_vars

(***************************************************************************)
(* The comparator's claims.                                                *)
(***************************************************************************)
Triple(t) == <<t.major, t.minor, t.patch>>

TripleLess(x, y) ==
    \/ x[1] < y[1]
    \/ x[1] = y[1] /\ x[2] < y[2]
    \/ x[1] = y[1] /\ x[2] = y[2] /\ x[3] < y[3]

IsStable(t) == t.prerelease = None

SegsOf(t) == SplitOn(t.prerelease, {".", "-"})

\* Two segments that the segment-wise comparison does not tell apart.
SegSame(x, y) ==
    IF IsDigitStr(x) /\ IsDigitStr(y) THEN IntOf(x) = IntOf(y)
    ELSE ~IsDigitStr(x) /\ ~IsDigitStr(y) /\ LowerStr(x) = LowerStr(y)

\* Rule 3 on one position: numeric before alphabetic, numeric by value,
\* alphabetic case-insensitively as text.
SegBefore(x, y) ==
    IF IsDigitStr(x) /\ IsDigitStr(y) THEN IntOf(x) < IntOf(y)
    ELSE IF IsDigitStr(x) THEN TRUE
    ELSE IF IsDigitStr(y) THEN FALSE
    ELSE StrLess(LowerStr(x), LowerStr(y))

\* Rule 3: the first differing segment decides, a proper prefix orders first.
RECURSIVE SegsBefore(_, _)
SegsBefore(xs, ys) ==
    IF Len(ys) = 0 THEN FALSE
    ELSE IF Len(xs) = 0 THEN TRUE
    ELSE IF SegSame(xs[1], ys[1]) THEN SegsBefore(Tail(xs), Tail(ys))
    ELSE SegBefore(xs[1], ys[1])

RECURSIVE SegsSame(_, _)
SegsSame(xs, ys) ==
    IF Len(xs) = 0 \/ Len(ys) = 0 THEN Len(xs) = Len(ys)
    ELSE SegSame(xs[1], ys[1]) /\ SegsSame(Tail(xs), Tail(ys))

\* The three rules of the Version Comparator.
RuleBefore(a, b) ==
    IF Triple(a) # Triple(b) THEN TripleLess(Triple(a), Triple(b))
    ELSE IF IsStable(a) THEN FALSE
    ELSE IF IsStable(b) THEN TRUE
    ELSE SegsBefore(SegsOf(a), SegsOf(b))

\* Tags the comparator cannot tell apart: same triple, both stable or both
\* prereleases whose segments agree up to letter case and numeric value.
SameRank(a, b) ==
    /\ Triple(a) = Triple(b)
    /\ IsStable(a) = IsStable(b)
    /\ ~IsStable(a) => SegsSame(SegsOf(a), SegsOf(b))

\* Tags with at most one segment, as third elements for transitivity.
Probes == {t \in Tags : IsStable(t) \/ Len(SegsOf(t)) = 1}

ProbeKeys == {version_key(t) : t \in Probes}

C5_KeyOrderIsRuleOrder ==
    cmp.done => (KeyLess(cmp.ka, cmp.kb) = RuleBefore(cmp.a, cmp.b))

\* Beta.2 and Beta.10 of one triple were compared: the numeric segment
\* decides by value although "10" precedes "2" as text.
C5_Witness ==
    /\ cmp.done
    /\ Triple(cmp.a) = Triple(cmp.b)
    /\ cmp.a.prerelease = <<"B", "e", "t", "a", ".", "2">>
    /\ cmp.b.prerelease = <<"B", "e", "t", "a", ".", "1", "0">>
    /\ KeyLess(cmp.ka, cmp.kb)


(***************************************************************************)
(* The extractor's claims.                                                 *)
(***************************************************************************)
HeadingOf(tag) == HeadingMark \o tag \o <<"]">>

IsBlank(line) == Strip(line) = <<>>

\* Indices of the lines that, trimmed, equal the heading of tag.
HeadingLines(lines, tag) == {i \in 1..Len(lines) : Strip(lines[i]) = HeadingOf(tag)}

FirstHeading(lines, tag) ==
    CHOOSE h \in HeadingLines(lines, tag) : \A j \in HeadingLines(lines, tag) : h <= j

\* The lines strictly between line h and the next line beginning with "## [".
Between(lines, h) ==
    LET inside == {i \in (h + 1)..Len(lines) :
                      \A j \in (h + 1)..i : ~StartsWith(lines[j], HeadingMark)}
    IN SubSeq(lines, h + 1, h + Cardinality(inside))

\* body without its leading and trailing blank lines.
RECURSIVE DropBlankHead(_)
DropBlankHead(body) ==
    IF Len(body) > 0 /\ IsBlank(body[1]) THEN DropBlankHead(Tail(body)) ELSE body

RECURSIVE DropBlankTail(_)
DropBlankTail(body) ==
    IF Len(body) > 0 /\ IsBlank(body[Len(body)])
    THEN DropBlankTail(SubSeq(body, 1, Len(body) - 1)) ELSE body

TrimBlankLines(body) == DropBlankTail(DropBlankHead(body))

\* body with the indentation of its first line and the trailing whitespace of
\* its last line removed.
TrimEnds(body) ==
    IF Len(body) = 0 THEN body
    ELSE LET headTrimmed == [body EXCEPT ![1] = LStrip(body[1])]
         IN [headTrimmed EXCEPT ![Len(body)] = RStrip(headTrimmed[Len(body)])]

NotesLines == SplitLines(notes.changelog)

NotesRan == notes.done /\ notes.changelog # None

\* C10 as claimed: without a heading the extraction fails; with one it returns
\* exactly the lines between the heading and the next "## [" line, less the
\* leading and trailing blank lines.
C10_NotesAsClaimed ==
    NotesRan =>
        IF HeadingLines(NotesLines, notes.tag) = {} THEN ~notes.out.ok
        ELSE /\ notes.out.ok
             /\ notes.out.text =
                  Join(TrimBlankLines(Between(NotesLines, FirstHeading(NotesLines, notes.tag))),
                       <<"\n">>)

\* C10, amended: without a heading the extraction fails; with one it takes the
\* lines strictly between the first such heading and the next line beginning
\* with "## [" (or the end), removes the leading and trailing blank lines and
\* also the leading whitespace of the first remaining line and the trailing
\* whitespace of the last, and returns them joined by newlines, or the
\* placeholder "- Maintenance release." when nothing remains; the example
\* changelog yields "- A\n- B" for v1.0.0 and "- C" for v0.9.0.
C10_NotesAmended ==
    NotesRan =>
        /\ IF HeadingLines(NotesLines, notes.tag) = {}
           THEN notes.out = Raised("No changelog heading found")
           ELSE LET kept == TrimBlankLines(
                                Between(NotesLines, FirstHeading(NotesLines, notes.tag)))
                IN /\ notes.out.ok
                   /\ notes.out.text =
                        IF kept = <<>> THEN Placeholder
                        ELSE Join(TrimEnds(kept), <<"\n">>)
        /\ notes.changelog = Join(ExampleLines, <<"\n">>) =>
              notes.out.text = IF notes.tag = TagV1 THEN Join(<<LineA, LineB>>, <<"\n">>)
                               ELSE LineC

\* The example changelog was extracted for v1.0.0 and gave "- A\n- B".
C10_Witness ==
    /\ notes.done
    /\ notes.changelog = Join(ExampleLines, <<"\n">>)
    /\ notes.tag = TagV1
    /\ notes.out = Returned(Join(<<LineA, LineB>>, <<"\n">>))


(***************************************************************************)
(* The signer's claims.                                                    *)
(***************************************************************************)
\* The value a request for the asset must give: the digest the host supplies,
\* else the digest or the signature of what is at its location.
ValueFor(asset) ==
    IF signer.which = "sparkle" THEN SignatureOf(Bytes(32), asset.download_url)
    ELSE IF asset.sha256 # None THEN asset.sha256
    ELSE Sha256Of(asset.download_url)

\* C7 as claimed: of two requests of one run for the same location the second
\* downloads nothing, computes nothing and returns the first one's value; and
\* a request never returns what belongs to another location, whatever the
\* assets' names.
C7_CacheByLocationAsClaimed ==
    \A j \in 1..Len(signer.requests) :
        LET second == signer.requests[j]
        IN (~signer.raised \/ j < Len(signer.requests)) =>
             /\ second.value = ValueFor(second.asset)
             /\ \A i \in 1..(j - 1) :
                   LET first == signer.requests[i]
                   IN /\ first.asset.download_url = second.asset.download_url
                      /\ first.fetched # <<>>
                      => /\ second.fetched = <<>>
                         /\ ~second.computed
                         /\ second.value = first.value


(***************************************************************************)
(* The claims about a run.                                                 *)
(***************************************************************************)
\* The run has resolved its channels: main() is past pick_latest.
Selected ==
    \/ pc \in {"stable_cask", "beta_cask", "assets", "notes", "sign", "write", "done"}
    \/ pc = "failed" /\ log.error \notin {"config: unsupported key", "config: missing key", "fetch"}

KeyOf(release) == version_key(release.parsed)

\* C1: when a latest stable and a latest prerelease both exist, beta is the
\* stable release if version_key(stable) >= version_key(prerelease) and the
\* prerelease otherwise; the beta selection's key is never lower than the
\* stable selection's; a prerelease with a higher numeric triple wins beta.
C1_BetaSelection ==
    /\ local.stable # NoRelease /\ local.prerelease # NoRelease =>
          /\ local.beta_track =
                IF KeyLeq(KeyOf(local.prerelease), KeyOf(local.stable))
                THEN local.stable ELSE local.prerelease
          /\ TripleLess(Triple(local.stable.parsed), Triple(local.prerelease.parsed))
                => local.beta_track = local.prerelease
    /\ local.stable # NoRelease /\ local.beta_track # NoRelease =>
          ~KeyLess(KeyOf(local.beta_track), KeyOf(local.stable))

\* A Sparkle run chose v1.3.0-beta.1 over the stable v1.2.0 for beta.
C1_Witness ==
    /\ script = "sparkle"
    /\ local.stable.tag_name = TagStable
    /\ local.prerelease.tag_name = TagBetaNew
    /\ local.beta_track = local.prerelease

\* Errors of a run that a missing resource or the network causes.
ResourceErrors == {"fetch", "asset", "download", "changelog", "timestamp"}

BetaPaths == {"dockter@beta.rb", "beta-arm64.xml", "beta-x64.xml"} \cap DOMAIN files

StablePaths == {"dockter.rb", "stable-arm64.xml", "stable-x64.xml"} \cap DOMAIN files

\* The version an output file advertises.
VersionIn(content) == IF script = "sparkle" THEN content.title ELSE content.version

\* C2 as claimed: when exactly one of latest stable and latest prerelease
\* exists the run is not blocked and beta tracks that one; with prereleases
\* only, a run that no missing resource stops completes, writes the beta
\* output for the latest prerelease and leaves the stable output alone.
C2_OneChannelAsClaimed ==
    Selected /\ ((local.stable = NoRelease) # (local.prerelease = NoRelease)) =>
        /\ pc = "failed" => log.error \in ResourceErrors
        /\ pc = "done" =>
              /\ local.beta_track =
                    IF local.stable = NoRelease THEN local.prerelease ELSE local.stable
              /\ \A path \in BetaPaths :
                    /\ files[path] # NoFile
                    /\ VersionIn(files[path]) = short_version(local.beta_track.parsed)
              /\ local.stable = NoRelease =>
                    \A path \in StablePaths : files[path] = log.before[path]

\* C3 as claimed: a run that ends because an asset or a changelog heading is
\* missing or a download fails has created or modified no output file.
C3_NoPartialOutputAsClaimed ==
    pc = "failed" /\ log.error \in {"asset", "changelog", "download"} =>
        /\ log.written = {}
        /\ files = log.before

\* The payload without its drafts.
WithoutDrafts(payload) ==
    LET NotDraft(item) == ~item.draft
    IN SelectSeq(payload, NotDraft)

\* C6: neither selection is a draft, and the selections are those the
\* resolution makes of the release list with its drafts removed.
C6_DraftsExcluded ==
    Selected =>
        LET kept == fetch_releases(script, WithoutDrafts(HostPayload(input)))
        IN /\ ~local.stable.draft /\ ~local.prerelease.draft /\ ~local.beta_track.draft
           /\ local.stable = LatestStable(kept)
           /\ local.prerelease = LatestPrerelease(kept)
           /\ \A i \in 1..Len(input.listed) :
                 input.listed[i].draft =>
                    /\ local.stable.tag_name # input.listed[i].tag
                    /\ local.beta_track.tag_name # input.listed[i].tag

\* The host lists a draft v2.0.0 and the stable selection is v1.2.0.
C6_Witness ==
    /\ Selected
    /\ \E i \in 1..Len(input.listed) :
          input.listed[i].draft /\ input.listed[i].tag = TagStableNew
    /\ local.stable.tag_name = TagStable
    /\ local.beta_track.tag_name = TagStable

\* No key is configured, or the configured one is malformed.
KeyMissing(secret) == ~secret.given \/ secret.blank

KeyMalformed(secret) ==
    /\ secret.given /\ ~secret.blank
    /\ ~secret.padded \/ Len(secret.decoded) \notin {32, 64}

\* C8: a Sparkle run that requires signatures and has no key, or whose key is
\* malformed, ends with a fatal error before the release list is fetched and
\* before any asset is downloaded.
C8_ConfigBeforeNetwork ==
    /\ script = "sparkle"
    /\ \/ input.require /\ KeyMissing(input.secret)
       \/ KeyMalformed(input.secret)
    => \/ pc = "config" /\ log.fetches = 0 /\ log.downloads = <<>>
       \/ /\ pc = "failed"
          /\ log.error \in {"config: unsupported key", "config: missing key"}
          /\ log.fetches = 0 /\ log.downloads = <<>>

\* A run that requires signatures and has no key has failed, nothing fetched.
C8_Witness ==
    /\ script = "sparkle" /\ pc = "failed"
    /\ input.require /\ ~input.secret.given
    /\ log.error = "config: missing key"
    /\ log.fetches = 0

\* C9 as claimed: the second of two runs on the same inputs reports every
\* write as unchanged and leaves the files as it found them.
C9_SecondRunUnchangedAsClaimed ==
    run = 2 /\ pc = "done" =>
        /\ \A i \in 1..Len(log.reports) : log.reports[i][2] # "updated"
        /\ log.written = {}
        /\ files = log.before


\* The host lists no release that is both undrafted and version-tagged.
NoEligible(env) ==
    \A i \in 1..Len(env.listed) :
        env.listed[i].draft \/ parse_tag(env.listed[i].tag) = NoTag

\* C11: a run whose release list holds no undrafted release with a stable or
\* prerelease tag ends successfully with the outcome "no releases", having
\* looked up no asset, downloaded and signed nothing and written no file.
C11_NoReleasesIsNoError ==
    NoEligible(input) /\ Selected =>
        /\ pc = "done"
        /\ log.error = ""
        /\ log.outcome = "no releases"
        /\ log.lookups = 0
        /\ log.downloads = <<>>
        /\ log.signed = <<>>
        /\ log.written = {}
        /\ log.reports = <<>>
        /\ files = log.before

\* A run whose list holds only a draft has ended with "no releases".
C11_Witness ==
    /\ pc = "done" /\ log.outcome = "no releases"
    /\ Len(input.listed) > 0
    /\ \E i \in 1..Len(input.listed) :
          input.listed[i].draft /\ input.listed[i].tag = TagStableNew

\* C12: a configured key that decodes to 32 bytes is the seed, one that
\* decodes to 64 bytes gives its first 32 bytes as the seed, and one of any
\* other length ends the run at configuration, with no key and nothing
\* fetched or written.
C12_KeyLengths ==
    /\ script = "sparkle" /\ pc # "config"
    /\ input.secret.given /\ ~input.secret.blank /\ input.secret.padded
    => LET decoded == input.secret.decoded
       IN IF Len(decoded) = 32
          THEN local.private_key = decoded /\ log.error # "config: unsupported key"
          ELSE IF Len(decoded) = 64
          THEN /\ local.private_key = SubSeq(decoded, 1, 32)
               /\ log.error # "config: unsupported key"
          ELSE /\ pc = "failed"
               /\ log.error = "config: unsupported key"
               /\ local.private_key = None
               /\ log.fetches = 0
               /\ log.written = {}

\* A run configured with a 64-byte blob goes on with its first 32 bytes.
C12_Witness ==
    /\ script = "sparkle" /\ pc = "done"
    /\ Len(input.secret.decoded) = 64
    /\ local.private_key = Bytes(32)
    /\ log.signed # <<>>

\* C13: a Sparkle run with no key configured and signatures not required
\* downloads nothing and signs nothing, and when it completes the four feeds
\* are on disk as rendered, none with a signature attribute.
C13_UnsignedRun ==
    /\ script = "sparkle" /\ pc # "config"
    /\ KeyMissing(input.secret) /\ ~input.require
    => /\ log.error \notin {"config: unsupported key", "config: missing key"}
       /\ local.private_key = None
       /\ log.downloads = <<>>
       /\ log.signed = <<>>
       /\ local.signatures = <<>>
       /\ local.appcasts # <<>> =>
             \A i \in 1..4 : local.appcasts[i].edSignature = None
       /\ pc = "done" /\ log.outcome = "complete" =>
             \A i \in 1..4 :
                /\ files[SparklePaths[i]] = local.appcasts[i]
                /\ files[SparklePaths[i]].edSignature = None

\* An unsigned run has written its four feeds.
C13_Witness ==
    /\ script = "sparkle" /\ pc = "done" /\ log.outcome = "complete"
    /\ ~input.secret.given /\ ~input.require
    /\ log.written = SparkleFiles
    /\ log.downloads = <<>>


(***************************************************************************)
(* The tag parser's claims.                                                *)
(***************************************************************************)
\* s is one or more of the digits 0 to 9.
AllDigits(s) == Len(s) > 0 /\ \A i \in 1..Len(s) : s[i] \in Range(Digits)

\* s is v<digits>.<digits>.<digits> and nothing more; the dots are at i and j.
StableShape(s, i, j) ==
    /\ Len(s) > 0 /\ s[1] = "v"
    /\ 2 < i /\ i < j /\ j < Len(s)
    /\ s[i] = "." /\ s[j] = "."
    /\ AllDigits(SubSeq(s, 2, i - 1))
    /\ AllDigits(SubSeq(s, i + 1, j - 1))
    /\ AllDigits(SubSeq(s, j + 1, Len(s)))

IsStableForm(s) == \E i, j \in 1..Len(s) : StableShape(s, i, j)

\* s is a stable form, a hyphen at k and one or more of letters, digits,
\* dots and hyphens.
IsPrereleaseForm(s) ==
    \E k \in 1..Len(s) :
        /\ s[k] = "-"
        /\ IsStableForm(SubSeq(s, 1, k - 1))
        /\ k < Len(s)
        /\ \A n \in (k + 1)..Len(s) :
              s[n] \in Range(Digits \o UpperCase \o LowerCase) \cup {".", "-"}

\* C14 as claimed: parse_tag gives a version with no prerelease exactly for
\* the texts v<major>.<minor>.<patch>, a version with a prerelease exactly
\* for such a text followed by a hyphen and an identifier, and None for every
\* other text, one with an extra character before or after it included.
C14_ParseTagAsClaimed ==
    tagged.done =>
        /\ (tagged.parsed # NoTag /\ tagged.parsed.prerelease = None)
              <=> IsStableForm(tagged.tag)
        /\ (tagged.parsed # NoTag /\ tagged.parsed.prerelease # None)
              <=> IsPrereleaseForm(tagged.tag)


(***************************************************************************)
(* The build number's claims.                                              *)
(***************************************************************************)
\* x <= y for the decimal texts of two naturals without leading zeros.
DecimalLeq(x, y) == Len(x) < Len(y) \/ (Len(x) = Len(y) /\ ~StrLess(y, x))

\* C15 as claimed: of two parsed versions the one with the lower version_key
\* has no higher build number, and a stable version's build number is above
\* that of every prerelease of its numeric triple.
C15_BuildFollowsKeyAsClaimed ==
    cmp.done =>
        /\ KeyLess(cmp.ka, cmp.kb) => DecimalLeq(cmp.va, cmp.vb)
        /\ IsStable(cmp.a) /\ ~IsStable(cmp.b) /\ Triple(cmp.a) = Triple(cmp.b)
              => ~DecimalLeq(cmp.va, cmp.vb)

=============================================================================
